---------------------------- MODULE Spec2Model ----------------------------
(***************************************************************************)
(* Model of project-gna's state-recovery attacks:                          *)
(*   src/src/generators/mersenne_twister.py   (MT19937)                    *)
(*   src/src/generators/lcg.py                (LCG)                        *)
(*   src/src/attaques/mt_state_recovery.py    (untemper, clone)            *)
(*   src/src/attaques/lcg_seed_recovery.py    (recover m, a, c)            *)
(*                                                                         *)
(* Python integers are unbounded, TLC's are 32-bit signed.  A non-negative *)
(* Python int is therefore modelled as the finite set of the positions of  *)
(* its one-bits (5 = {0, 2}); a signed Python int as a record              *)
(* [neg, mag] of a sign and such a set.  Shifts, masks and xor are set     *)
(* operations, the arithmetic is binary arithmetic on those sets.          *)
(***************************************************************************)
EXTENDS Integers, Sequences, FiniteSets, TLC

\* ------------------------------------------------------------------------
\* Non-negative Python ints as sets of bit positions
\* ------------------------------------------------------------------------

Max(S) == CHOOSE x \in S : \A y \in S : y <= x

Min(S) == CHOOSE x \in S : \A y \in S : x <= y

\* The bits of a TLC natural n < 2^31.
Bits(n) == {i \in 0..30 : (n \div (2^i)) % 2 = 1}

\* The value written with the hexadecimal digits ds (most significant first).
Hex(ds) == UNION {{4 * (Len(ds) - k) + i : i \in Bits(ds[k])} : k \in 1..Len(ds)}

\* The TLC natural of a bit set below 2^31.
RECURSIVE ToNat(_)
ToNat(A) == IF A = {} THEN 0 ELSE LET i == Max(A) IN 2^i + ToNat(A \ {i})

\* Python's  a ^ b,  a & b,  a | b,  a << s,  a >> s  on non-negative ints.
Xor(A, B) == (A \ B) \cup (B \ A)

And(A, B) == A \cap B

Or(A, B) == A \cup B

Shl(A, s) == {i + s : i \in A}

Shr(A, s) == {i - s : i \in {j \in A : j >= s}}

\* a + b: add the carries until none is left.
RECURSIVE NatAdd(_, _)
NatAdd(A, B) == IF B = {} THEN A ELSE NatAdd(Xor(A, B), Shl(And(A, B), 1))

\* a - b for a >= b: subtract the borrows until none is left.
RECURSIVE NatSub(_, _)
NatSub(A, B) == IF B = {} THEN A ELSE NatSub(Xor(A, B), Shl(B \ A, 1))

\* a < b: the highest bit in which they differ is b's.
NatLess(A, B) == LET D == Xor(A, B) IN D # {} /\ Max(D) \in B

NatLeq(A, B) == A = B \/ NatLess(A, B)

\* a * b: the sum of b << i over the one-bits i of a.
RECURSIVE NatMul(_, _)
NatMul(A, B) ==
  IF A = {} \/ B = {} THEN {}
  ELSE LET i == Min(A) IN NatAdd(Shl(B, i), NatMul(A \ {i}, B))

\* <<a // b, a % b>> for b > 0 by binary long division, from bit k downwards.
RECURSIVE DivStep(_, _, _, _)
DivStep(R, B, Q, k) ==
  IF k < 0 THEN <<Q, R>>
  ELSE LET D == Shl(B, k)
       IN IF NatLeq(D, R) THEN DivStep(NatSub(R, D), B, Q \cup {k}, k - 1)
          ELSE DivStep(R, B, Q, k - 1)

NatDivMod(A, B) ==
  IF NatLess(A, B) THEN <<{}, A>> ELSE DivStep(A, B, {}, Max(A) - Max(B))

NatMod(A, B) == NatDivMod(A, B)[2]

\* math.gcd on non-negative ints (Euclid).
RECURSIVE NatGcd(_, _)
NatGcd(A, B) == IF B = {} THEN A ELSE NatGcd(B, NatMod(A, B))


\* ------------------------------------------------------------------------
\* Signed Python ints: [neg |-> sign, mag |-> bits of the absolute value]
\* ------------------------------------------------------------------------

\* The Python int of a TLC integer.
PyInt(n) == [neg |-> n < 0, mag |-> Bits(IF n < 0 THEN -n ELSE n)]

\* x & mask for a non-negative mask; a negative x is ...111 two's complement,
\* -v = ~(v - 1).
MaskInt(x, mask) ==
  IF x.neg THEN mask \ NatSub(x.mag, {0}) ELSE And(x.mag, mask)

Mk(neg, mag) == [neg |-> neg /\ mag # {}, mag |-> mag]

Zero == Mk(FALSE, {})

\* 2 ** n
TwoPow(n) == Mk(FALSE, {n})

\* The TLC integer of a Python int of absolute value below 2^31.
ToInt(x) == IF x.neg THEN 0 - ToNat(x.mag) ELSE ToNat(x.mag)

IntNeg(x) == Mk(~x.neg, x.mag)

IntAdd(x, y) ==
  IF x.neg = y.neg THEN Mk(x.neg, NatAdd(x.mag, y.mag))
  ELSE IF NatLess(x.mag, y.mag) THEN Mk(y.neg, NatSub(y.mag, x.mag))
  ELSE Mk(x.neg, NatSub(x.mag, y.mag))

IntSub(x, y) == IntAdd(x, IntNeg(y))

IntMul(x, y) == Mk(x.neg # y.neg, NatMul(x.mag, y.mag))

\* x % m for m # 0: Python's remainder has the sign of the divisor.
IntMod(x, m) ==
  LET r == NatMod(x.mag, m.mag)
  IN IF r = {} THEN Zero
     ELSE IF x.neg = m.neg THEN Mk(m.neg, r)
     ELSE Mk(m.neg, NatSub(m.mag, r))

\* for i in range(lo, hi): s = body(s, i).  The range is split in halves and
\* the state after the first half is computed before the second half starts
\* (bound as an element of a set), which keeps the evaluation depth
\* logarithmic in the length of the range.
RECURSIVE ForRange(_, _, _, _)
ForRange(body(_, _), s, lo, hi) ==
  IF lo >= hi THEN s
  ELSE IF hi = lo + 1 THEN body(s, lo)
  ELSE LET mid == (lo + hi) \div 2
       IN CHOOSE r \in {ForRange(body, l, mid, hi) :
                          l \in {ForRange(body, s, lo, mid)}} : TRUE

\* ------------------------------------------------------------------------
\* generators/mersenne_twister.py
\* ------------------------------------------------------------------------

N == 624

M == 397

MATRIX_A == Hex(<<9, 9, 0, 8, 11, 0, 13, 15>>)

UPPER_MASK == Hex(<<8, 0, 0, 0, 0, 0, 0, 0>>)

LOWER_MASK == Hex(<<7, 15, 15, 15, 15, 15, 15, 15>>)

INIT_CONST == Hex(<<6, 12, 0, 7, 8, 9, 6, 5>>)

WORD_MASK == Hex(<<15, 15, 15, 15, 15, 15, 15, 15>>)

TEMPERING_B == Hex(<<9, 13, 2, 12, 5, 6, 8, 0>>)

TEMPERING_C == Hex(<<14, 15, 12, 6, 0, 0, 0, 0>>)

\* One iteration of the loop of _init_etat.
init_step(etat, i) ==
  [etat EXCEPT ![i] =
     And(NatAdd(NatMul(INIT_CONST, Xor(etat[i - 1], Shr(etat[i - 1], 30))), Bits(i)),
         WORD_MASK)]

init_etat(etat, graine) ==
  ForRange(init_step, [etat EXCEPT ![0] = MaskInt(graine, WORD_MASK)], 1, N)

\* Mutant: the cursor starts at 0, so the first outputs come from the words
\* of _init_etat with no twist.
MersenneTwister_index0(graine) ==
  [graine |-> graine,
   etat   |-> init_etat([i \in 0..(N - 1) |-> {}], graine),
   index  |-> 0]

\* MersenneTwister.__init__: the list of N zeros, the index N, then _init_etat.
MersenneTwister(graine) ==
  [graine |-> graine,
   etat   |-> init_etat([i \in 0..(N - 1) |-> {}], graine),
   index  |-> N]

\* Mutant: y is shifted to the left, which makes words of 33 bits.
twist_step_shl(etat, i) ==
  LET y  == Or(And(etat[i], UPPER_MASK), And(etat[(i + 1) % N], LOWER_MASK))
      e1 == Xor(etat[(i + M) % N], Shl(y, 1))
      e2 == IF 0 \in y THEN Xor(e1, MATRIX_A) ELSE e1
  IN [etat EXCEPT ![i] = e2]

\* One iteration of the loop of _twist (in place: later iterations read
\* the words already regenerated).
twist_step(etat, i) ==
  LET y  == Or(And(etat[i], UPPER_MASK), And(etat[(i + 1) % N], LOWER_MASK))
      e1 == Xor(etat[(i + M) % N], Shr(y, 1))
      e2 == IF 0 \in y THEN Xor(e1, MATRIX_A) ELSE e1
  IN [etat EXCEPT ![i] = e2]

\* Mutant: every word is regenerated from the words before the twist, as on
\* a copy of the array.
twist_copie(self) ==
  [self EXCEPT !.etat = [i \in 0..(N - 1) |-> twist_step(self.etat, i)[i]], !.index = 0]

twist(self) == [self EXCEPT !.etat = ForRange(twist_step, self.etat, 0, N), !.index = 0]

tempering(y) ==
  LET y1 == Xor(y, Shr(y, 11))
      y2 == Xor(y1, And(Shl(y1, 7), TEMPERING_B))
      y3 == Xor(y2, And(Shl(y2, 15), TEMPERING_C))
      y4 == Xor(y3, Shr(y3, 18))
  IN And(y4, WORD_MASK)

\* MersenneTwister.next: the generator after the call and the value returned.
MT_next(self) ==
  LET s == IF self.index >= N THEN twist(self) ELSE self
  IN [self |-> [s EXCEPT !.index = s.index + 1],
      ret  |-> tempering(s.etat[s.index])]

\* One iteration of the loop of generate: resultats.append(self.next()).
generate_step(s, i) ==
  LET r == MT_next(s.self)
  IN [self |-> r.self, ret |-> Append(s.ret, r.ret)]

\* Mutant: the loop makes one iteration less, range(1, n).
MT_generate_court(self, n) == ForRange(generate_step, [self |-> self, ret |-> <<>>], 1, n)

\* MersenneTwister.generate(n): the generator after the call and the list
\* returned.
MT_generate(self, n) == ForRange(generate_step, [self |-> self, ret |-> <<>>], 0, n)

\* ------------------------------------------------------------------------
\* attaques/mt_state_recovery.py
\* ------------------------------------------------------------------------

\* Python's None, and a value that is an object or None: the empty set or the
\* set of the one object.
None == {}

Some(x) == {x}

The(r) == CHOOSE x \in r : TRUE

min(a, b) == IF a <= b THEN a ELSE b

\* The literal 0xFFFFFFFF of the window computations.
FFFFFFFF == Hex(<<15, 15, 15, 15, 15, 15, 15, 15>>)

\* Mutant: the loop goes on while decalage <= 32.
continuer_inclus(decalage) == decalage <= 32

\* while decalage < 32, the test of both loops.
continuer(decalage) == decalage < 32

\* Mutant: the body of the left-shift loop, pasted with no mask.
droite_pas_gauche(resultat, decalage, shift) ==
  Xor(resultat, And(Shl(resultat, shift), Shl(NatSub(Shl({0}, shift), {0}), decalage)))

\* One iteration of the loop of inverser_xor_droite: the new resultat.
droite_pas(resultat, decalage, shift) ==
  LET fenetre == Xor(Shr(FFFFFFFF, decalage),
                     Shr(FFFFFFFF, min(decalage + shift, 32)))
  IN Xor(resultat, And(Shr(resultat, shift), fenetre))

\* The iteration raises ValueError (negative shift count) in 0xFFFFFFFF >>
\* decalage, in the second >> or in resultat >> shift.
droite_leve(decalage, shift) ==
  decalage < 0 \/ min(decalage + shift, 32) < 0 \/ shift < 0

\* Mutant: the mask is forgotten in the body of the loop.
gauche_pas_nomask(resultat, decalage, shift, mask) ==
  LET fenetre == Shl(NatSub(Shl({0}, shift), {0}), decalage)
  IN Xor(resultat, And(Shl(resultat, shift), fenetre))

\* One iteration of the loop of inverser_xor_gauche_mask: the new resultat.
gauche_pas(resultat, decalage, shift, mask) ==
  LET fenetre == Shl(NatSub(Shl({0}, shift), {0}), decalage)
  IN Xor(resultat, And(And(Shl(resultat, shift), mask), fenetre))

\* The iteration raises ValueError (negative shift count) in 1 << shift, in
\* << decalage or in resultat << shift.
gauche_leve(decalage, shift) == shift < 0 \/ decalage < 0

\* The while loop of inverser_xor_droite.
RECURSIVE droite_loop(_, _, _)
droite_loop(resultat, decalage, shift) ==
  IF decalage < 32
  THEN LET fenetre == Xor(Shr(FFFFFFFF, decalage),
                          Shr(FFFFFFFF, min(decalage + shift, 32)))
       IN droite_loop(Xor(resultat, And(Shr(resultat, shift), fenetre)),
                      decalage + shift, shift)
  ELSE resultat

\* Mutant: the loop stops before the last window.
RECURSIVE droite_loop_court(_, _, _)
droite_loop_court(resultat, decalage, shift) ==
  IF decalage + shift < 32
  THEN LET fenetre == Xor(Shr(FFFFFFFF, decalage),
                          Shr(FFFFFFFF, min(decalage + shift, 32)))
       IN droite_loop_court(Xor(resultat, And(Shr(resultat, shift), fenetre)),
                            decalage + shift, shift)
  ELSE resultat

inverser_xor_droite_court(y, shift) == droite_loop_court(y, shift, shift)

\* Mutant: one pass only, as if the xor with the shifted word undid itself.
inverser_xor_droite_once(y, shift) == Xor(y, Shr(y, shift))

inverser_xor_droite(y, shift) == droite_loop(y, shift, shift)

\* The while loop of inverser_xor_gauche_mask.
RECURSIVE gauche_loop(_, _, _, _)
gauche_loop(resultat, decalage, shift, mask) ==
  IF decalage < 32
  THEN LET fenetre == Shl(NatSub(Shl({0}, shift), {0}), decalage)
       IN gauche_loop(Xor(resultat, And(And(Shl(resultat, shift), mask), fenetre)),
                      decalage + shift, shift, mask)
  ELSE resultat

\* Mutant: the mask is forgotten.
inverser_xor_gauche_nomask(y, shift, mask) == gauche_loop(y, shift, shift, FFFFFFFF)

inverser_xor_gauche_mask(y, shift, mask) == gauche_loop(y, shift, shift, mask)

\* Mutant: the two left-shift stages are undone in the forward order.
untemper_forward_order(y) ==
  LET y1 == inverser_xor_droite(y, 18)
      y2 == inverser_xor_gauche_mask(y1, 7, Hex(<<9, 13, 2, 12, 5, 6, 8, 0>>))
      y3 == inverser_xor_gauche_mask(y2, 15, Hex(<<14, 15, 12, 6, 0, 0, 0, 0>>))
      y4 == inverser_xor_droite(y3, 11)
  IN y4

untemper(y) ==
  LET y1 == inverser_xor_droite(y, 18)
      y2 == inverser_xor_gauche_mask(y1, 15, Hex(<<14, 15, 12, 6, 0, 0, 0, 0>>))
      y3 == inverser_xor_gauche_mask(y2, 7, Hex(<<9, 13, 2, 12, 5, 6, 8, 0>>))
      y4 == inverser_xor_droite(y3, 11)
  IN y4

\* Mutant: the length test is off by one.
cloner_generateur_off_by_one(observations) ==
  IF Len(observations) <= 624 THEN None
  ELSE Some([MersenneTwister(PyInt(0)) EXCEPT
               !.etat  = [i \in 0..623 |-> untemper(observations[i + 1])],
               !.index = 624])

\* Mutant: the last 624 observations are untempered, not the first.
cloner_generateur_last(observations) ==
  IF Len(observations) < 624 THEN None
  ELSE Some([MersenneTwister(PyInt(0)) EXCEPT
               !.etat  = [i \in 0..623 |->
                            untemper(observations[Len(observations) - 623 + i])],
               !.index = 624])

\* Mutant: the cursor of the clone is set to 0.
cloner_generateur_index0(observations) ==
  IF Len(observations) < 624 THEN None
  ELSE Some([MersenneTwister(PyInt(0)) EXCEPT
               !.etat  = [i \in 0..623 |-> untemper(observations[i + 1])],
               !.index = 0])

\* Mutant: every observation is untempered into the state, not the first 624.
cloner_generateur_unsliced(observations) ==
  IF Len(observations) < 624 THEN None
  ELSE Some([MersenneTwister(PyInt(0)) EXCEPT
               !.etat  = [i \in 0..(Len(observations) - 1) |->
                            untemper(observations[i + 1])],
               !.index = 624])

\* cloner_generateur: None below 624 observations, else MersenneTwister(0)
\* with its etat replaced by the untempered first 624 observations (a fresh
\* list) and its index set to 624.
cloner_generateur(observations) ==
  IF Len(observations) < 624 THEN None
  ELSE Some([MersenneTwister(PyInt(0)) EXCEPT
               !.etat  = [i \in 0..623 |-> untemper(observations[i + 1])],
               !.index = 624])

\* ------------------------------------------------------------------------
\* generators/lcg.py
\* ------------------------------------------------------------------------

LCG(graine, a, c, m) == [etat |-> graine, a |-> a, c |-> c, m |-> m]

\* Mutant: the remainder takes the sign of the dividend (truncated division).
LCG_next_truncated(self) ==
  LET x == IntAdd(IntMul(self.a, self.etat), self.c)
      e == Mk(x.neg, NatMod(x.mag, self.m.mag))
  IN [self |-> [self EXCEPT !.etat = e], ret |-> e]

\* LCG.next: the generator after the call and the value returned.
LCG_next(self) ==
  LET e == IntMod(IntAdd(IntMul(self.a, self.etat), self.c), self.m)
  IN [self |-> [self EXCEPT !.etat = e], ret |-> e]

\* LCG.generate(n): n calls of next, their values in order.
RECURSIVE LCG_generate(_, _)
LCG_generate(self, n) ==
  IF n <= 0 THEN [self |-> self, ret |-> <<>>]
  ELSE LET r    == LCG_next(self)
           rest == LCG_generate(r.self, n - 1)
       IN [self |-> rest.self, ret |-> <<r.ret>> \o rest.ret]

\* LCG.generate_bytes(n): n calls of next, the low 8 bits of each value.
RECURSIVE LCG_generate_bytes(_, _)
LCG_generate_bytes(self, n) ==
  IF n <= 0 THEN [self |-> self, ret |-> <<>>]
  ELSE LET r    == LCG_next(self)
           rest == LCG_generate_bytes(r.self, n - 1)
       IN [self |-> rest.self, ret |-> <<MaskInt(r.ret, 0..7)>> \o rest.ret]

\* ------------------------------------------------------------------------
\* generators/xor_nrbg.py
\* ------------------------------------------------------------------------

\* XorGenerator.__init__: None stands for the ValueError of an empty list.
XorGenerator(generateurs) ==
  IF generateurs = <<>> THEN None ELSE Some([generateurs |-> generateurs])

\* Mutant: the sources are combined with | in place of ^.
xor_octets_or(resultat, octets, n) ==
  [i \in DOMAIN resultat |-> IF i <= n THEN Or(resultat[i], octets[i]) ELSE resultat[i]]

\* for i in range(n): resultat[i] ^= octets[i]
xor_octets(resultat, octets, n) ==
  [i \in DOMAIN resultat |-> IF i <= n THEN Xor(resultat[i], octets[i]) ELSE resultat[i]]

\* The loop  for gen in self.generateurs[1:]  from the k-th generator on
\* (Python indexes from 0, the sequences here from 1).  journal lists the
\* generators generate_bytes was called on, in the order of the calls.
RECURSIVE xor_loop(_, _, _, _, _)
xor_loop(generateurs, resultat, journal, k, n) ==
  IF k > Len(generateurs)
  THEN [generateurs |-> generateurs, ret |-> resultat, journal |-> journal]
  ELSE LET r == LCG_generate_bytes(generateurs[k], n)
       IN xor_loop([generateurs EXCEPT ![k] = r.self],
                   xor_octets(resultat, r.ret, n), Append(journal, k), k + 1, n)

\* XorGenerator.generate_bytes(n): the generators after the call, the bytes
\* returned and the calls made.
Xor_generate_bytes(self, n) ==
  LET r == LCG_generate_bytes(self.generateurs[1], n)
  IN xor_loop([self.generateurs EXCEPT ![1] = r.self], r.ret, <<1>>, 2, n)

\* ------------------------------------------------------------------------
\* attaques/lcg_seed_recovery.py
\* ------------------------------------------------------------------------

\* diffs = [sorties[i + 1] - sorties[i] for i in range(len(sorties) - 1)]
\* (Python indexes from 0, the sequences here from 1).
Diffs(sorties) ==
  [k \in 1..(Len(sorties) - 1) |-> IntSub(sorties[k + 1], sorties[k])]

\* Mutant: the square is taken of the difference before, diffs[i - 1].
Val_shifted(diffs, i) ==
  IntSub(IntMul(diffs[i + 2], diffs[i]), IntMul(diffs[i], diffs[i]))

\* val of the iteration i of the first loop of retrouver_m.
Val(diffs, i) ==
  IntSub(IntMul(diffs[i + 2], diffs[i]), IntMul(diffs[i + 1], diffs[i + 1]))

\* multiples: abs(val) for the i in range(1, len(diffs) - 1) with val != 0.
Multiples(diffs) ==
  LET vals == [i \in 1..(Len(diffs) - 2) |-> Val(diffs, i).mag]
  IN SelectSeq(vals, LAMBDA v : v # {})

\* Mutant: m = val in the loop, the last multiple is kept.
RECURSIVE GcdLoop_dernier(_, _, _)
GcdLoop_dernier(m, multiples, k) ==
  IF k > Len(multiples) THEN m
  ELSE GcdLoop_dernier(multiples[k], multiples, k + 1)

\* m = multiples[0]; for val in multiples[1:]: m = gcd(m, val)
RECURSIVE GcdLoop(_, _, _)
GcdLoop(m, multiples, k) ==
  IF k > Len(multiples) THEN m
  ELSE GcdLoop(NatGcd(m, multiples[k]), multiples, k + 1)

\* Mutant: a gcd of 1 is returned as a modulus.
retrouver_m_keeps_one(sorties) ==
  LET multiples == Multiples(Diffs(sorties))
  IN IF multiples = <<>> THEN None
     ELSE Some(Mk(FALSE, GcdLoop(multiples[1], multiples, 2)))

retrouver_m(sorties) ==
  LET multiples == Multiples(Diffs(sorties))
  IN IF multiples = <<>> THEN None
     ELSE LET m == GcdLoop(multiples[1], multiples, 2)
          IN IF NatLess({0}, m) THEN Some(Mk(FALSE, m)) ELSE None

\* The loop of the modular inverse behind pow(a, -1, n) (extended Euclid):
\* the last a is gcd(a, n) and b * a0 = a (mod n0).
RECURSIVE invmod_loop(_, _, _, _)
invmod_loop(a, n, b, c) ==
  IF n = {} THEN [a |-> a, b |-> b]
  ELSE LET qr == NatDivMod(a, n)
       IN invmod_loop(n, qr[2], c, IntSub(b, IntMul(Mk(FALSE, qr[1]), c)))

\* Mutant: the inverse is returned without the test that the gcd is 1.
pow_inverse_unchecked(base, m) ==
  IF m.mag = {0} THEN Some(Zero)
  ELSE Some(IntMod(invmod_loop(base.mag, m.mag, Mk(FALSE, {0}), Zero).b, m))

\* pow(base, -1, m) for 0 <= base and m >= 1: None stands for the ValueError
\* "base is not invertible for the given modulus".
pow_inverse(base, m) ==
  IF m.mag = {0} THEN Some(Zero)
  ELSE LET r == invmod_loop(base.mag, m.mag, Mk(FALSE, {0}), Zero)
       IN IF r.a = {0} THEN Some(IntMod(r.b, m)) ELSE None

\* Mutant: the two differences are exchanged, which gives the inverse of a.
retrouver_a_swapped(x0, x1, x2, m) ==
  LET diff0 == IntMod(IntSub(x2, x1), m)
      diff1 == IntMod(IntSub(x1, x0), m)
      inv   == pow_inverse(diff0, m)
  IN IF inv = None THEN None
     ELSE Some(IntMod(IntMul(diff1, The(inv)), m))

retrouver_a(x0, x1, x2, m) ==
  LET diff0 == IntMod(IntSub(x1, x0), m)
      diff1 == IntMod(IntSub(x2, x1), m)
      inv   == pow_inverse(diff0, m)
  IN IF inv = None THEN None
     ELSE Some(IntMod(IntMul(diff1, The(inv)), m))

\* Mutant: the remainder takes the sign of the dividend (truncated division).
retrouver_c_truncated(x0, x1, a, m) ==
  LET d == IntSub(x1, IntMul(a, x0))
  IN Mk(d.neg, NatMod(d.mag, m.mag))

\* Mutant: the product is added, (x1 + a * x0) % m.
retrouver_c_plus(x0, x1, a, m) == IntMod(IntAdd(x1, IntMul(a, x0)), m)

retrouver_c(x0, x1, a, m) == IntMod(IntSub(x1, IntMul(a, x0)), m)

\* ------------------------------------------------------------------------
\* State
\* ------------------------------------------------------------------------

VARIABLES
  word,          \* tempering: the 32-bit word the transforms are applied to
  flips,         \* tempering: bits flipped in word since the start
  trace,         \* tempering: the transforms applied to word, with their results
  gen,           \* MT attack: the target generator (gen_cible)
  observations,  \* MT attack: the outputs observed so far
  attack,        \* MT attack: the last call of cloner_generateur and its outcome
  clone,         \* MT attack: the generator cloner_generateur returned, or None
  pending,       \* MT attack: outputs one generator produced and the other not yet
  lead,          \* MT attack: the generator that produced pending
  compared,      \* MT attack: the last <<vrais, predictions>> lists compared
  nCompared,     \* MT attack: the number of outputs compared
  calls,         \* MT attack: calls of next and generate since the cloning
  erreur,        \* MT attack: the exception that ended the attack, or ""
  lcg,           \* LCG attack: the target generator (gen)
  sorties,       \* LCG attack: the outputs observed so far
  pc,            \* LCG attack: the statement of the attack reached
  m_trouve,      \* LCG attack: what retrouver_m returned
  a_trouve,      \* LCG attack: what retrouver_a returned
  c_trouve,      \* LCG attack: what retrouver_c returned
  etat,          \* LCG attack: the state the predictions iterate on
  vrais,         \* LCG attack: the target's outputs after the observed ones
  predictions,   \* LCG attack: the outputs predicted so far
  inputs,        \* recovery functions: the integer arguments of a call
  result,        \* recovery functions: the call made on inputs and its outcome
  sources,       \* generators: the list of LCG objects in use
  xorgen,        \* generators: the XorGenerator built on sources, or None
  appel,         \* generators: the last call, what it was made on and its outcome
  nAppels,       \* generators: the number of calls made
  fonction,      \* window loops: the function called, or ""
  y,             \* window loops: the argument y of the call
  shift,         \* window loops: the argument shift
  mask,          \* window loops: the argument mask (inverser_xor_gauche_mask)
  resultat,      \* window loops: the local resultat
  decalage,      \* window loops: the local decalage
  fenetres,      \* window loops: the decalage of each iteration made, in order
  etape          \* window loops: "while", "return" or "ValueError", "" before the call

tpVars == <<word, flips, trace>>

mtVars ==
  <<gen, observations, attack, clone, pending, lead, compared, nCompared, calls,
    erreur>>

lcVars == <<lcg, sorties, pc, m_trouve, a_trouve, c_trouve, etat, vrais, predictions>>

rcVars == <<inputs, result>>

gnVars == <<sources, xorgen, appel, nAppels>>

wnVars == <<fonction, y, shift, mask, resultat, decalage, fenetres, etape>>

vars == <<tpVars, mtVars, lcVars, rcVars, gnVars, wnVars>>

\* No call of cloner_generateur since the last observation.
NoCall == [len |-> -1, ret |-> "NoCall"]

\* The variables of a component that a specification does not run.
tpIdle == word = {} /\ flips = 0 /\ trace = <<>>

mtIdle ==
  /\ gen = None /\ observations = <<>> /\ attack = NoCall /\ clone = None
  /\ pending = <<>> /\ lead = "" /\ compared = <<>> /\ nCompared = 0 /\ calls = 0
  /\ erreur = ""

lcIdle ==
  /\ lcg = None /\ sorties = <<>> /\ pc = "" /\ m_trouve = None /\ a_trouve = None
  /\ c_trouve = None /\ etat = None /\ vrais = <<>> /\ predictions = <<>>

rcIdle == inputs = <<>> /\ result = None

gnIdle == sources = <<>> /\ xorgen = None /\ appel = None /\ nAppels = 0

wnIdle ==
  /\ fonction = "" /\ y = {} /\ shift = 0 /\ mask = {} /\ resultat = {}
  /\ decalage = 0 /\ fenetres = <<>> /\ etape = ""

\* ------------------------------------------------------------------------
\* Tempering and its inverse on sample words
\* ------------------------------------------------------------------------

MaxFlips == 2

\* 0x00000000, 0xFFFFFFFF, 0x80000000, 0x00000001
BoundaryWords == {{}, 0..31, {31}, {0}}

\* The value the next transform is applied to.
Current == IF trace = <<>> THEN word ELSE trace[Len(trace)].ret

TPInit ==
  /\ word \in BoundaryWords /\ flips = 0 /\ trace = <<>>
  /\ mtIdle /\ lcIdle /\ rcIdle /\ gnIdle /\ wnIdle

\* Another sample: flip one bit of the word.
TPFlip ==
  /\ trace = <<>> /\ flips < MaxFlips
  /\ \E i \in 0..31 : word' = Xor(word, {i})
  /\ flips' = flips + 1
  /\ UNCHANGED <<trace, mtVars, lcVars, rcVars, gnVars, wnVars>>

TPTemper ==
  /\ Len(trace) < 2
  /\ trace' = Append(trace, [fn |-> "tempering", ret |-> tempering(Current)])
  /\ UNCHANGED <<word, flips, mtVars, lcVars, rcVars, gnVars, wnVars>>

TPUntemper ==
  /\ Len(trace) < 2
  /\ trace' = Append(trace, [fn |-> "untemper", ret |-> untemper(Current)])
  /\ UNCHANGED <<word, flips, mtVars, lcVars, rcVars, gnVars, wnVars>>

TPNext == TPFlip \/ TPTemper \/ TPUntemper

SpecTemper == TPInit /\ [][TPNext]_vars

Fns == [i \in DOMAIN trace |-> trace[i].fn]

\* C2: untemper(tempering(y)) = y for every 32-bit word y.
C2_UntemperInvertsTemper ==
  Fns = <<"tempering", "untemper">> => trace[2].ret = word

C2_Witness ==
  /\ Fns = <<"tempering", "untemper">>
  /\ flips = MaxFlips /\ trace[1].ret # word /\ trace[2].ret = word

\* C3: tempering(untemper(y)) = y for every 32-bit word y, and untemper(y) is
\* a 32-bit word.
C3_TemperInvertsUntemper ==
  Fns = <<"untemper", "tempering">> =>
    /\ trace[2].ret = word
    /\ trace[1].ret \subseteq 0..31

C3_Witness ==
  /\ Fns = <<"untemper", "tempering">>
  /\ flips = MaxFlips /\ trace[1].ret # word /\ trace[2].ret = word

\* ------------------------------------------------------------------------
\* y ^ (y >> shift) and its inverse, for every shift
\* ------------------------------------------------------------------------

MaxFlipsDroite == 1

\* The boundary words, 0xDEADBEEF, 0x12345678 and 0xAAAAAAAA.
ShiftWords ==
  BoundaryWords \cup {Hex(<<13, 14, 10, 13, 11, 14, 14, 15>>),
                      Hex(<<1, 2, 3, 4, 5, 6, 7, 8>>),
                      Hex(<<10, 10, 10, 10, 10, 10, 10, 10>>)}

Shifts == 1..31

DRInit ==
  /\ word \in ShiftWords /\ flips = 0 /\ trace = <<>>
  /\ mtIdle /\ lcIdle /\ rcIdle /\ gnIdle /\ wnIdle

\* Another sample: flip one bit of the word.
DRFlip ==
  /\ trace = <<>> /\ flips < MaxFlipsDroite
  /\ \E i \in 0..31 : word' = Xor(word, {i})
  /\ flips' = flips + 1
  /\ UNCHANGED <<trace, mtVars, lcVars, rcVars, gnVars, wnVars>>

\* y = y ^ (y >> shift), the operation inverser_xor_droite undoes.
DRXor ==
  /\ trace = <<>>
  /\ \E s \in Shifts :
       trace' = <<[fn |-> "xor_droite", shift |-> s, ret |-> Xor(word, Shr(word, s))]>>
  /\ UNCHANGED <<word, flips, mtVars, lcVars, rcVars, gnVars, wnVars>>

\* inverser_xor_droite(y, shift) on the word just made, with its shift.
DRInverser ==
  /\ Len(trace) = 1
  /\ trace' = Append(trace, [fn    |-> "inverser_xor_droite",
                             shift |-> trace[1].shift,
                             ret   |-> inverser_xor_droite(Current, trace[1].shift)])
  /\ UNCHANGED <<word, flips, mtVars, lcVars, rcVars, gnVars, wnVars>>

DRNext == DRFlip \/ DRXor \/ DRInverser

SpecDroite == DRInit /\ [][DRNext]_vars

\* C20: inverser_xor_droite(w ^ (w >> s), s) = w for every 32-bit word w and
\* every shift s in 1..31.
C20_RightShiftInverse ==
  Fns = <<"xor_droite", "inverser_xor_droite">> => trace[2].ret = word

\* The shift 1, which takes 31 windows, on a word the xor changed.
C20_Witness ==
  /\ Fns = <<"xor_droite", "inverser_xor_droite">>
  /\ trace[1].shift = 1 /\ flips = MaxFlipsDroite
  /\ trace[1].ret # word /\ trace[2].ret = word

\* ------------------------------------------------------------------------
\* The MT19937 attack: observe the target, clone it, run both
\* ------------------------------------------------------------------------

\* Seeds of the target generator (98765 is the seed of the demo).
MTSeeds == {98765, 0, -1}

\* The n of the generate(n) calls that observe the target.
ObsSizes == {1, 10, 624}

\* The n of the generate(n) calls after the cloning (10 is the demo's).
GenSizes == {10, 624}

\* Outputs compared after the cloning.
MaxOut == 1250

\* How far one generator may run ahead of the other, and how many outputs
\* beyond 624 may be observed before the cloning.
MaxLag == 1

\* Calls of next and generate after the cloning.
MaxCalls == 4

MTInit ==
  /\ \E s \in MTSeeds : gen = MersenneTwister(PyInt(s))
  /\ observations = <<>> /\ attack = NoCall /\ clone = None
  /\ pending = <<>> /\ lead = "" /\ compared = <<>> /\ nCompared = 0 /\ calls = 0
  /\ erreur = ""
  /\ tpIdle /\ lcIdle /\ rcIdle /\ gnIdle /\ wnIdle

\* observations += gen_cible.generate(n)
MTObserve ==
  /\ clone = None /\ erreur = ""
  /\ \E n \in ObsSizes :
       /\ Len(observations) + n <= N + MaxLag
       /\ LET r == MT_generate(gen, n)
          IN /\ gen' = r.self
             /\ observations' = observations \o r.ret
  /\ attack' = NoCall
  /\ UNCHANGED <<clone, pending, lead, compared, nCompared, calls, erreur>>
  /\ UNCHANGED <<tpVars, lcVars, rcVars, gnVars, wnVars>>

\* gen_clone = cloner_generateur(observations).  The observations past the
\* 624th are outputs of the target the clone has yet to produce.
MTClone ==
  /\ clone = None /\ attack = NoCall /\ erreur = ""
  /\ LET c == cloner_generateur(observations)
     IN /\ clone' = c
        /\ attack' = [len |-> Len(observations),
                      ret |-> IF c = None THEN "None" ELSE "MersenneTwister"]
        /\ pending' = IF c = None THEN <<>>
                      ELSE SubSeq(observations, 625, Len(observations))
        /\ lead' = IF c # None /\ Len(observations) > 624 THEN "cible" ELSE ""
  /\ UNCHANGED <<gen, observations, compared, nCompared, calls, erreur>>
  /\ UNCHANGED <<tpVars, lcVars, rcVars, gnVars, wnVars>>

\* One generator produced `out`: it is compared with the output of the same
\* rank of the other generator if that one is ahead, and kept for it if not.
Produce(who, other, out) ==
  IF lead = other
  THEN /\ compared' = IF who = "cible" THEN <<<<out>>, <<Head(pending)>>>>
                      ELSE <<<<Head(pending)>>, <<out>>>>
       /\ nCompared' = nCompared + 1
       /\ pending' = Tail(pending)
       /\ lead' = IF Len(pending) = 1 THEN "" ELSE lead
  ELSE /\ Len(pending) < MaxLag
       /\ nCompared + Len(pending) < MaxOut
       /\ pending' = Append(pending, out)
       /\ lead' = who
       /\ UNCHANGED <<compared, nCompared>>

\* gen_cible.next() after the cloning.
MTNextCible ==
  /\ clone # None /\ calls < MaxCalls
  /\ LET r == MT_next(gen)
     IN gen' = r.self /\ Produce("cible", "clone", r.ret)
  /\ calls' = calls + 1
  /\ UNCHANGED <<observations, attack, clone, erreur, tpVars, lcVars, rcVars, gnVars, wnVars>>

\* Mutant: the clone works on the target's state array and cursor, so its
\* next() moves the target as well.
MTNextClone_shared ==
  /\ clone # None /\ calls < MaxCalls
  /\ LET r == MT_next(The(clone))
     IN /\ clone' = Some(r.self)
        /\ gen' = [gen EXCEPT !.etat = r.self.etat, !.index = r.self.index]
        /\ Produce("clone", "cible", r.ret)
  /\ calls' = calls + 1
  /\ UNCHANGED <<observations, attack, erreur, tpVars, lcVars, rcVars, gnVars, wnVars>>

\* gen_clone.next().
MTNextClone ==
  /\ clone # None /\ calls < MaxCalls
  /\ LET r == MT_next(The(clone))
     IN clone' = Some(r.self) /\ Produce("clone", "cible", r.ret)
  /\ calls' = calls + 1
  /\ UNCHANGED <<observations, attack, gen, erreur, tpVars, lcVars, rcVars, gnVars, wnVars>>

\* vrais = gen_cible.generate(n); predictions = gen_clone.generate(n), with
\* both generators at the same rank.  The demo makes the two calls whatever
\* cloner_generateur returned: on None the second one raises AttributeError.
MTGenerate ==
  /\ attack # NoCall /\ erreur = "" /\ calls < MaxCalls
  /\ pending = <<>>
  /\ \E n \in (IF clone = None THEN {10} ELSE GenSizes) :
       /\ nCompared + n <= MaxOut
       /\ LET vrais_ == MT_generate(gen, n)
          IN /\ gen' = vrais_.self
             /\ IF clone = None
                THEN /\ erreur' = "AttributeError"
                     /\ UNCHANGED <<clone, compared, nCompared>>
                ELSE LET predictions_ == MT_generate(The(clone), n)
                     IN /\ clone' = Some(predictions_.self)
                        /\ compared' = <<vrais_.ret, predictions_.ret>>
                        /\ nCompared' = nCompared + n
                        /\ UNCHANGED erreur
  /\ calls' = calls + 1
  /\ UNCHANGED <<observations, attack, pending, lead, tpVars, lcVars, rcVars, gnVars, wnVars>>

MTNext == MTObserve \/ MTClone \/ MTNextCible \/ MTNextClone \/ MTGenerate

SpecMT == MTInit /\ [][MTNext]_vars

\* C1: a clone built from the first 624 outputs of a fresh generator produces,
\* output for output, what the original produces from its 625th output on.
C1_CloneFidelity ==
  (attack # NoCall /\ attack.len = 624 /\ compared # <<>>) =>
     compared[1] = compared[2]

\* The clone has gone through three twists (outputs 1, 625 and 1249).
C1_Witness ==
  /\ attack # NoCall /\ attack.len = 624
  /\ nCompared > 2 * N /\ compared[1] = compared[2]

\* C4: cloner_generateur returns None, and no generator, for fewer than 624
\* observations, and a generator for 624 or more.
C4_UnderSampling ==
  attack # NoCall =>
    IF attack.len < 624
    THEN attack.ret = "None" /\ clone = None
    ELSE attack.ret = "MersenneTwister" /\ clone # None

C4_Witness == attack # NoCall /\ attack.len = 623 /\ clone = None

\* C12: the generator cloner_generateur returns has a state array of exactly
\* 624 words, each in [0, 2^32-1], and the cursor 624.
C12_CloneShape ==
  (clone # None /\ calls = 0) =>
    /\ DOMAIN The(clone).etat = 0..623
    /\ \A i \in 0..623 : The(clone).etat[i] \subseteq 0..31
    /\ The(clone).index = 624

\* A clone made from 625 observations, with a word that uses the top bit.
C12_Witness ==
  /\ clone # None /\ calls = 0 /\ attack.len = 625
  /\ \E i \in 0..623 : 31 \in The(clone).etat[i]

C15_WordWidth ==
  /\ DOMAIN gen.etat = 0..623
  /\ \A i \in 0..623 : gen.etat[i] \subseteq 0..31
  /\ \A j \in DOMAIN observations : observations[j] \subseteq 0..31
  /\ \A j \in DOMAIN pending : pending[j] \subseteq 0..31
  /\ compared # <<>> =>
       \A k \in 1..2 : \A j \in DOMAIN compared[k] : compared[k][j] \subseteq 0..31
  /\ clone # None => \A i \in 0..623 : The(clone).etat[i] \subseteq 0..31

\* A generator with a negative seed after its third twist, with a state word
\* and an output that use the top bit.
C15_Witness ==
  /\ gen.graine.neg /\ Len(observations) = N /\ nCompared > N
  /\ \E i \in 0..623 : 31 \in gen.etat[i]
  /\ \E j \in DOMAIN compared[1] : 31 \in compared[1][j]

\* C19: a clone made from the first 624 outputs of a fresh generator has the
\* state array the target has at that moment, word for word, each word the
\* untemper of the observation of the same rank, and the target's cursor, 624.
C19_StateReconstruction ==
  (clone # None /\ attack.len = 624 /\ calls = 0) =>
    /\ The(clone).etat = gen.etat
    /\ \A i \in 0..623 : gen.etat[i] = untemper(observations[i + 1])
    /\ The(clone).index = gen.index /\ gen.index = 624

\* The clone of a target seeded 98765: same state, though built on seed 0.
C19_Witness ==
  /\ clone # None /\ attack.len = 624 /\ calls = 0
  /\ gen.graine = PyInt(98765) /\ The(clone).graine = PyInt(0)
  /\ The(clone).etat = gen.etat /\ gen.etat # MersenneTwister(PyInt(0)).etat

\* C23: from more than 624 observations cloner_generateur returns the clone
\* it returns from the first 624 alone.
C23_FirstObservationsOnly ==
  (clone # None /\ attack.len > 624 /\ calls = 0) =>
    clone = cloner_generateur(SubSeq(observations, 1, 624))

\* A clone made from 625 observations, the last of which is not a repeat.
C23_Witness ==
  /\ clone # None /\ attack.len = 625 /\ calls = 0
  /\ observations[625] # observations[624]
  /\ The(clone).etat[623] = untemper(observations[624])

\* C11: generate is called on the clone only when cloner_generateur returned
\* a generator; when it returned None the attack stops, no later step runs
\* and no exception is raised.
C11_NoStepAfterFailure ==
  (attack # NoCall /\ attack.ret = "None") => (calls = 0 /\ erreur = "")

\* ------------------------------------------------------------------------
\* The LCG attack: observe the target, recover m, a and c, predict
\* ------------------------------------------------------------------------

\* Seeds of targets with the default parameters (12345 is the demo's seed).
GlibcSeeds == {12345, 0, 1, -1, 15, 2122, 18433}

\* <<graine, a, c, m>> of some small targets.
SmallLCGs == {<<1, 5, 3, 16>>, <<0, 7, 4, 9>>, <<-4, -3, 5, 7>>, <<1, 5, 2, 16>>}

\* The default parameters of LCG.__init__, a_reel, c_reel and m_reel of the demo.
a_reel == PyInt(1103515245)

c_reel == PyInt(12345)

m_reel == TwoPow(31)

\* sorties = gen.generate(10)
NbSorties == 10

\* Outputs that may be observed beyond the 10 of the demo.
MaxExtra == 1

LCInit ==
  /\ \/ \E s \in GlibcSeeds : lcg = LCG(PyInt(s), a_reel, c_reel, m_reel)
     \/ \E t \in SmallLCGs : lcg = LCG(PyInt(t[1]), PyInt(t[2]), PyInt(t[3]), PyInt(t[4]))
  /\ sorties = <<>> /\ pc = "observe" /\ m_trouve = None /\ a_trouve = None
  /\ c_trouve = None /\ etat = None /\ vrais = <<>> /\ predictions = <<>>
  /\ tpIdle /\ mtIdle /\ rcIdle /\ gnIdle /\ wnIdle

\* sorties.append(gen.next()), one step of gen.generate.
LCObserve ==
  /\ pc = "observe"
  /\ Len(sorties) < NbSorties + MaxExtra
  /\ LET r == LCG_next(lcg)
     IN lcg' = r.self /\ sorties' = Append(sorties, r.ret)
  /\ UNCHANGED <<pc, m_trouve, a_trouve, c_trouve, etat, vrais, predictions>>
  /\ UNCHANGED <<tpVars, mtVars, rcVars, gnVars, wnVars>>

\* m_trouve = retrouver_m(sorties); if not m_trouve: return
LCRetrouverM ==
  /\ pc = "observe"
  /\ Len(sorties) >= NbSorties
  /\ m_trouve' = retrouver_m(sorties)
  /\ pc' = IF m_trouve' = None \/ The(m_trouve') = Zero THEN "echec_m" ELSE "m"
  /\ UNCHANGED <<lcg, sorties, a_trouve, c_trouve, etat, vrais, predictions>>
  /\ UNCHANGED <<tpVars, mtVars, rcVars, gnVars, wnVars>>

\* a_trouve = retrouver_a(sorties[0], sorties[1], sorties[2], m_trouve);
\* if a_trouve is None: return
LCRetrouverA ==
  /\ pc = "m"
  /\ a_trouve' = retrouver_a(sorties[1], sorties[2], sorties[3], The(m_trouve))
  /\ pc' = IF a_trouve' = None THEN "echec_a" ELSE "a"
  /\ UNCHANGED <<lcg, sorties, m_trouve, c_trouve, etat, vrais, predictions>>
  /\ UNCHANGED <<tpVars, mtVars, rcVars, gnVars, wnVars>>

\* c_trouve = retrouver_c(sorties[0], sorties[1], a_trouve, m_trouve)
LCRetrouverC ==
  /\ pc = "a"
  /\ c_trouve' = Some(retrouver_c(sorties[1], sorties[2], The(a_trouve), The(m_trouve)))
  /\ pc' = "c"
  /\ UNCHANGED <<lcg, sorties, m_trouve, a_trouve, etat, vrais, predictions>>
  /\ UNCHANGED <<tpVars, mtVars, rcVars, gnVars, wnVars>>

\* etat = sorties[-1]; vrais = gen.generate(5)
LCVrais ==
  /\ pc = "c"
  /\ etat' = Some(sorties[Len(sorties)])
  /\ LET r == LCG_generate(lcg, 5)
     IN lcg' = r.self /\ vrais' = r.ret
  /\ pc' = "predict"
  /\ UNCHANGED <<sorties, m_trouve, a_trouve, c_trouve, predictions>>
  /\ UNCHANGED <<tpVars, mtVars, rcVars, gnVars, wnVars>>

\* One iteration of  for i in range(5):
\*   prediction = (a_trouve * etat + c_trouve) % m_trouve; etat = prediction
LCPredict ==
  /\ pc = "predict"
  /\ Len(predictions) < 5
  /\ LET prediction == IntMod(IntAdd(IntMul(The(a_trouve), The(etat)), The(c_trouve)),
                              The(m_trouve))
     IN predictions' = Append(predictions, prediction) /\ etat' = Some(prediction)
  /\ UNCHANGED <<lcg, sorties, pc, m_trouve, a_trouve, c_trouve, vrais>>
  /\ UNCHANGED <<tpVars, mtVars, rcVars, gnVars, wnVars>>

LCNext ==
  LCObserve \/ LCRetrouverM \/ LCRetrouverA \/ LCRetrouverC \/ LCVrais \/ LCPredict

SpecLCG == LCInit /\ [][LCNext]_vars

\* The target has the default parameters a=1103515245, c=12345, m=2^31.
Glibc == lcg.a = a_reel /\ lcg.c = c_reel /\ lcg.m = m_reel

\* C5: from 10 or more outputs of a target with the default parameters, for
\* any seed, the recovered m, a and c are 2^31, 1103515245 and 12345.
C5_RoundTrip ==
  (Glibc /\ pc # "observe") =>
     /\ m_trouve = Some(m_reel)
     /\ pc # "m" => a_trouve = Some(a_reel)
     /\ pc \notin {"m", "a"} => c_trouve = Some(c_reel)

\* C6: with the recovered parameters, the predictions iterated from the last
\* observed output equal, in order, the target's next outputs.
C6_Prediction ==
  pc = "predict" =>
     \A i \in 1..Len(predictions) : predictions[i] = vrais[i]

\* C17: every V_i = T_{i+1}*T_{i-1} - T_i^2 of the target's outputs is a
\* multiple of the target's modulus, and so is every modulus retrouver_m
\* returns, which is positive.
C17_DiscriminantMultiples ==
  /\ \A i \in 1..(Len(sorties) - 3) : IntMod(Val(Diffs(sorties), i), lcg.m) = Zero
  /\ (pc # "observe" /\ m_trouve # None) =>
       /\ ~The(m_trouve).neg /\ The(m_trouve) # Zero
       /\ IntMod(The(m_trouve), lcg.m) = Zero
       /\ NatLeq(lcg.m.mag, The(m_trouve).mag)

\* retrouver_m returned a proper multiple of the modulus, from discriminants
\* that are not all zero.
C17_Witness ==
  /\ pc # "observe" /\ m_trouve # None
  /\ IntMod(The(m_trouve), lcg.m) = Zero /\ NatLess(lcg.m.mag, The(m_trouve).mag)
  /\ \E i \in 1..(Len(sorties) - 3) : Val(Diffs(sorties), i) # Zero

\* ------------------------------------------------------------------------
\* The recovery functions on small integer arguments
\* ------------------------------------------------------------------------

\* The integers the arguments are drawn from.
IntVals == -2..2

\* The longest list passed to retrouver_m.
MaxLen == 5

\* The largest modulus passed to retrouver_a and retrouver_c.
MaxMod == 7

RCInit == inputs = <<>> /\ result = None /\ tpIdle /\ mtIdle /\ lcIdle /\ gnIdle /\ wnIdle

\* One more argument.
RCAppend ==
  /\ result = None
  /\ Len(inputs) < MaxLen
  /\ \E v \in IntVals : inputs' = Append(inputs, v)
  /\ UNCHANGED <<result, tpVars, mtVars, lcVars, gnVars, wnVars>>

\* retrouver_m(inputs)
RCRetrouverM ==
  /\ result = None
  /\ result' = Some([fn  |-> "retrouver_m", m |-> 0,
                     ret |-> retrouver_m([k \in DOMAIN inputs |-> PyInt(inputs[k])])])
  /\ UNCHANGED <<inputs, tpVars, mtVars, lcVars, gnVars, wnVars>>

\* retrouver_a(x0, x1, x2, m) for inputs = <<x0, x1, x2>>
RCRetrouverA ==
  /\ result = None
  /\ Len(inputs) = 3
  /\ \E m \in 1..MaxMod :
       result' = Some([fn  |-> "retrouver_a", m |-> m,
                       ret |-> retrouver_a(PyInt(inputs[1]), PyInt(inputs[2]),
                                           PyInt(inputs[3]), PyInt(m))])
  /\ UNCHANGED <<inputs, tpVars, mtVars, lcVars, gnVars, wnVars>>

\* retrouver_c(x0, x1, a, m) for inputs = <<x0, x1, a>>
RCRetrouverC ==
  /\ result = None
  /\ Len(inputs) = 3
  /\ \E m \in 1..MaxMod :
       result' = Some([fn  |-> "retrouver_c", m |-> m,
                       ret |-> retrouver_c(PyInt(inputs[1]), PyInt(inputs[2]),
                                           PyInt(inputs[3]), PyInt(m))])
  /\ UNCHANGED <<inputs, tpVars, mtVars, lcVars, gnVars, wnVars>>

\* The outputs of an LCG passed to retrouver_m.
MaxRun == 7

\* sorties = gen.generate(MaxRun); m_trouve = retrouver_m(sorties)
RCSorties ==
  /\ result = None /\ inputs = <<>>
  /\ \E m \in 2..MaxMod : \E a, c, graine \in 0..(m - 1) :
       LET sorties_ == LCG_generate(LCG(PyInt(graine), PyInt(a), PyInt(c), PyInt(m)),
                                    MaxRun).ret
       IN /\ inputs' = [k \in 1..MaxRun |-> ToInt(sorties_[k])]
          /\ result' = Some([fn |-> "retrouver_m", m |-> 0, ret |-> retrouver_m(sorties_)])
  /\ UNCHANGED <<tpVars, mtVars, lcVars, gnVars, wnVars>>

\* a_trouve = retrouver_a(x0, x1, x2, m); c_trouve = retrouver_c(x0, x1, a_trouve, m)
\* when a_trouve is not None, for x0, x1, x2 in [0, m - 1].
RCParametres ==
  /\ result = None /\ inputs = <<>>
  /\ \E m \in 2..MaxMod : \E x0, x1, x2 \in 0..(m - 1) :
       LET a_trouve_ == retrouver_a(PyInt(x0), PyInt(x1), PyInt(x2), PyInt(m))
           c_trouve_ == IF a_trouve_ = None THEN None
                        ELSE Some(retrouver_c(PyInt(x0), PyInt(x1), The(a_trouve_),
                                              PyInt(m)))
       IN /\ inputs' = <<x0, x1, x2>>
          /\ result' = Some([fn |-> "retrouver_a, retrouver_c", m |-> m,
                             ret |-> a_trouve_, c |-> c_trouve_])
  /\ UNCHANGED <<tpVars, mtVars, lcVars, gnVars, wnVars>>

RCNext ==
  RCAppend \/ RCRetrouverM \/ RCRetrouverA \/ RCRetrouverC \/ RCSorties \/ RCParametres

SpecRecover == RCInit /\ [][RCNext]_vars

Called(fn) == result # None /\ The(result).fn = fn

Abs(n) == IF n < 0 THEN 0 - n ELSE n

\* The first differences T and the nonzero |V_i| of the inputs, on TLC integers.
T == [k \in 1..(Len(inputs) - 1) |-> inputs[k + 1] - inputs[k]]

NonZeroV ==
  {Abs(T[i + 1] * T[i - 1] - T[i] * T[i]) : i \in 2..(Len(T) - 1)} \ {0}

\* The greatest common divisor of a set of naturals, one of them positive.
Divides(d, S) == \A v \in S : v % d = 0

GcdOf(S) == CHOOSE d \in 1..Max(S) : Divides(d, S) /\ \A e \in (d + 1)..Max(S) : ~Divides(e, S)

\* C7: retrouver_m returns None for fewer than 5 outputs.
C7_InsufficientSamples ==
  (Called("retrouver_m") /\ Len(inputs) < 5) => The(result).ret = None

\* C8: retrouver_m returns None exactly when there is no nonzero V_i or the
\* gcd of the |V_i| is 1, and that gcd, which is at least 2, otherwise.
C8_DegenerateModulus ==
  Called("retrouver_m") =>
    IF NonZeroV = {} \/ GcdOf(NonZeroV) = 1
    THEN The(result).ret = None
    ELSE /\ The(result).ret = Some(PyInt(GcdOf(NonZeroV)))
         /\ GcdOf(NonZeroV) >= 2

\* The gcd of several different |V_i| was returned.
C8_Witness ==
  /\ Called("retrouver_m") /\ The(result).ret # None
  /\ Cardinality(NonZeroV) >= 2
  /\ ToInt(The(The(result).ret)) < Max(NonZeroV)

\* C9: for m >= 2, retrouver_a returns None exactly when (x1 - x0) mod m is
\* not invertible modulo m.
C9_NonInvertible ==
  (Called("retrouver_a") /\ The(result).m >= 2) =>
    LET m == The(result).m
    IN (The(result).ret = None) <=> (GcdOf({(inputs[2] - inputs[1]) % m, m}) # 1)

\* A nonzero difference shares a factor with the modulus.
C9_Witness ==
  /\ Called("retrouver_a") /\ The(result).m >= 2
  /\ (inputs[2] - inputs[1]) % The(result).m # 0
  /\ The(result).ret = None

\* C10: retrouver_c returns c = (x1 - a*x0) mod m, which is in 0..m-1 and
\* satisfies (a*x0 + c) mod m = x1 mod m.
C10_IncrementTotal ==
  Called("retrouver_c") =>
    LET m == The(result).m
        c == The(result).ret
    IN /\ c.neg = FALSE
       /\ ToInt(c) = (inputs[2] - inputs[3] * inputs[1]) % m
       /\ ToInt(c) \in 0..(m - 1)
       /\ (inputs[3] * inputs[1] + ToInt(c)) % m = inputs[2] % m

\* x1 - a*x0 is negative and not a multiple of m.
C10_Witness ==
  /\ Called("retrouver_c")
  /\ inputs[2] - inputs[3] * inputs[1] < 0
  /\ ToInt(The(result).ret) > 0

\* C18: for m >= 2, a value r returned by retrouver_a is in [0, m-1] and
\* r * ((x1 - x0) mod m) = (x2 - x1) mod m modulo m; when x0, x1, x2 are
\* consecutive outputs of an LCG of modulus m and multiplier a in [0, m-1],
\* r = a.
C18_MultiplierExact ==
  (Called("retrouver_a") /\ The(result).m >= 2 /\ The(result).ret # None) =>
    LET m  == The(result).m
        r  == The(The(result).ret)
        x0 == inputs[1]
        x1 == inputs[2]
        x2 == inputs[3]
    IN /\ ~r.neg /\ ToInt(r) \in 0..(m - 1)
       /\ (ToInt(r) * ((x1 - x0) % m)) % m = (x2 - x1) % m
       /\ \A a \in 0..(m - 1), c \in 0..(m - 1) :
            (/\ {x0, x1, x2} \subseteq 0..(m - 1)
             /\ x1 = (a * x0 + c) % m /\ x2 = (a * x1 + c) % m) => ToInt(r) = a

\* 1, 2, 0 are consecutive outputs of the LCG a = 5, c = 4, m = 7.
C18_Witness ==
  /\ Called("retrouver_a") /\ The(result).m = 7 /\ inputs = <<1, 2, 0>>
  /\ The(result).ret = Some(PyInt(5))

\* C28: for m >= 2 and x0, x1, x2 in [0, m-1], when retrouver_a returns a'
\* and c' = retrouver_c(x0, x1, a', m), (a' * x0 + c') mod m = x1 and
\* (a' * x1 + c') mod m = x2, whatever generator the values come from.
C28_ParametersReproduce ==
  (Called("retrouver_a, retrouver_c") /\ The(result).ret # None) =>
    LET m  == The(result).m
        a_ == ToInt(The(The(result).ret))
        c_ == ToInt(The(The(result).c))
    IN /\ (a_ * inputs[1] + c_) % m = inputs[2]
       /\ (a_ * inputs[2] + c_) % m = inputs[3]

\* 3, 5, 2 modulo 7: a' = 2 and c' = 6.
C28_Witness ==
  /\ Called("retrouver_a, retrouver_c") /\ The(result).m = 7 /\ inputs = <<3, 5, 2>>
  /\ The(result).ret = Some(PyInt(2)) /\ The(result).c = Some(PyInt(6))

\* s is a run of consecutive outputs of an LCG of modulus m.
IsRun(s, m) ==
  /\ \A k \in DOMAIN s : s[k] \in 0..(m - 1)
  /\ \E a, c \in 0..(m - 1) :
       \A k \in 1..(Len(s) - 1) : s[k + 1] = (a * s[k] + c) % m

\* C29: when retrouver_m returns r for a prefix of a list and r' for the
\* whole list, r' divides r; and when the list is a run of an LCG of modulus
\* m >= 2 and retrouver_m returns a value for a prefix, it returns a value
\* for the whole list, a multiple of m.
C29_RefineModulus ==
  Called("retrouver_m") =>
    \A k \in 0..(Len(inputs) - 1) :
      LET r  == retrouver_m([j \in 1..k |-> PyInt(inputs[j])])
          r_ == The(result).ret
      IN r # None =>
           /\ r_ # None => ToInt(The(r)) % ToInt(The(r_)) = 0
           /\ \A m \in 2..MaxMod :
                IsRun(inputs, m) => (r_ # None /\ ToInt(The(r_)) % m = 0)

\* A run modulo 7 whose candidates are 28 after 4 outputs, 14 after 5 and 7
\* after 7.
C29_Witness ==
  /\ Called("retrouver_m") /\ inputs = <<0, 1, 6, 3, 2, 4, 0>>
  /\ IsRun(inputs, 7)
  /\ retrouver_m([j \in 1..4 |-> PyInt(inputs[j])]) = Some(PyInt(28))
  /\ retrouver_m([j \in 1..5 |-> PyInt(inputs[j])]) = Some(PyInt(14))
  /\ The(result).ret = Some(PyInt(7))

\* ------------------------------------------------------------------------
\* The generators: LCG objects called directly and through a XorGenerator
\* ------------------------------------------------------------------------

\* <<graine, a, c, m>> of small generators: negative and positive seeds,
\* multipliers and increments, seeds beyond m, the moduli 1 and 7.
SmallParams ==
  {<<s, a, c, m>> : s \in {-3, 9}, a \in {-2, 3}, c \in {-1, 4}, m \in {1, 7}}

\* The small generators, LCG(12345) with the default parameters, and one
\* whose outputs exceed a byte.
Gens ==
  {LCG(PyInt(t[1]), PyInt(t[2]), PyInt(t[3]), PyInt(t[4])) : t \in SmallParams}
    \cup {LCG(PyInt(12345), a_reel, c_reel, m_reel),
          LCG(PyInt(1), PyInt(300), PyInt(7), PyInt(1000))}

\* The generators that come second in a list of two.
Seconds ==
  {LCG(PyInt(1), PyInt(300), PyInt(7), PyInt(1000)), LCG(PyInt(9), PyInt(3), PyInt(4), PyInt(7))}

\* The lists of generators: none, one, two or three.
SourceLists ==
  {<<>>} \cup {<<g>> : g \in Gens} \cup {<<g, h>> : g \in Gens, h \in Seconds}
    \cup {<<LCG(PyInt(12345), a_reel, c_reel, m_reel),
            LCG(PyInt(1), PyInt(300), PyInt(7), PyInt(1000)),
            LCG(PyInt(-3), PyInt(-2), PyInt(-1), PyInt(7))>>}

\* The n of generate(n) and generate_bytes(n).
GenNs == {0, 2}

\* Calls made on the generators.
MaxAppels == 2

GNInit ==
  /\ sources \in SourceLists /\ xorgen = None /\ appel = None /\ nAppels = 0
  /\ tpIdle /\ mtIdle /\ lcIdle /\ rcIdle /\ wnIdle

\* self.generateurs is the list the generators are in: the XorGenerator sees
\* every call made on them.
Sync(srcs) == IF xorgen = None THEN None ELSE Some([generateurs |-> srcs])

\* sources[i].next()
GNNext ==
  /\ nAppels < MaxAppels
  /\ \E i \in DOMAIN sources :
       LET r == LCG_next(sources[i])
       IN /\ sources' = [sources EXCEPT ![i] = r.self]
          /\ appel' = Some([fn |-> "next", i |-> i, n |-> 1, avant |-> sources,
                            ret |-> <<r.ret>>, journal |-> <<>>, exc |-> ""])
  /\ xorgen' = Sync(sources')
  /\ nAppels' = nAppels + 1
  /\ UNCHANGED <<tpVars, mtVars, lcVars, rcVars, wnVars>>

\* sources[i].generate(n)
GNGenerate ==
  /\ nAppels < MaxAppels
  /\ \E i \in DOMAIN sources, n \in GenNs :
       LET r == LCG_generate(sources[i], n)
       IN /\ sources' = [sources EXCEPT ![i] = r.self]
          /\ appel' = Some([fn |-> "generate", i |-> i, n |-> n, avant |-> sources,
                            ret |-> r.ret, journal |-> <<>>, exc |-> ""])
  /\ xorgen' = Sync(sources')
  /\ nAppels' = nAppels + 1
  /\ UNCHANGED <<tpVars, mtVars, lcVars, rcVars, wnVars>>

\* sources[i].generate_bytes(n)
GNGenerateBytes ==
  /\ nAppels < MaxAppels
  /\ \E i \in DOMAIN sources, n \in GenNs :
       LET r == LCG_generate_bytes(sources[i], n)
       IN /\ sources' = [sources EXCEPT ![i] = r.self]
          /\ appel' = Some([fn |-> "generate_bytes", i |-> i, n |-> n, avant |-> sources,
                            ret |-> r.ret, journal |-> <<>>, exc |-> ""])
  /\ xorgen' = Sync(sources')
  /\ nAppels' = nAppels + 1
  /\ UNCHANGED <<tpVars, mtVars, lcVars, rcVars, wnVars>>

\* xorgen = XorGenerator(sources)
GNXorInit ==
  /\ xorgen = None
  /\ xorgen' = XorGenerator(sources)
  /\ appel' = Some([fn |-> "XorGenerator", i |-> 0, n |-> 0, avant |-> sources,
                    ret |-> <<>>, journal |-> <<>>,
                    exc |-> IF xorgen' = None THEN "ValueError" ELSE ""])
  /\ UNCHANGED <<sources, nAppels, tpVars, mtVars, lcVars, rcVars, wnVars>>

\* xorgen.generate_bytes(n)
GNXorBytes ==
  /\ nAppels < MaxAppels
  /\ xorgen # None
  /\ \E n \in GenNs :
       LET r == Xor_generate_bytes(The(xorgen), n)
       IN /\ sources' = r.generateurs
          /\ appel' = Some([fn |-> "xor_generate_bytes", i |-> 0, n |-> n,
                            avant |-> sources, ret |-> r.ret, journal |-> r.journal,
                            exc |-> ""])
  /\ xorgen' = Sync(sources')
  /\ nAppels' = nAppels + 1
  /\ UNCHANGED <<tpVars, mtVars, lcVars, rcVars, wnVars>>

GNNext_ == GNNext \/ GNGenerate \/ GNGenerateBytes \/ GNXorInit \/ GNXorBytes

SpecGen == GNInit /\ [][GNNext_]_vars

Appele(fns) == appel # None /\ The(appel).fn \in fns

\* The generator the last call was made on, before and after the call.
Avant == The(appel).avant[The(appel).i]

Apres == sources[The(appel).i]

\* The parameters and the state are small enough for TLC's integers.
Petit(g) == \A x \in {g.etat, g.a, g.c, g.m} : \A b \in x.mag : b < 10

\* 0 <= x <= m - 1
DansIntervalle(x, m) == ~x.neg /\ NatLess(x.mag, m.mag)

\* C14: every value LCG.next returns is in [0, m-1] and is the new state
\* (a*old_state + c) mod m, whatever the signs and sizes of the seed, a and c;
\* next, generate and generate_bytes never modify a, c and m.
C14_LCGRange ==
  /\ Appele({"next", "generate", "generate_bytes", "xor_generate_bytes"}) =>
       \A k \in DOMAIN sources :
         /\ sources[k].a = The(appel).avant[k].a
         /\ sources[k].c = The(appel).avant[k].c
         /\ sources[k].m = The(appel).avant[k].m
  /\ Appele({"next"}) =>
       LET x == The(appel).ret[1]
       IN /\ DansIntervalle(x, Avant.m)
          /\ Apres.etat = x
          /\ Petit(Avant) =>
               ToInt(x) = (ToInt(Avant.a) * ToInt(Avant.etat) + ToInt(Avant.c))
                            % ToInt(Avant.m)
  /\ Appele({"generate"}) =>
       /\ \A j \in DOMAIN The(appel).ret : DansIntervalle(The(appel).ret[j], Avant.m)
       /\ The(appel).n > 0 => Apres.etat = The(appel).ret[The(appel).n]

\* next() on a negative state with a negative multiplier gave a positive value.
C14_Witness ==
  /\ Appele({"next"})
  /\ Avant.etat.neg /\ Avant.a.neg /\ Avant.c.neg
  /\ The(appel).ret[1] # Zero /\ Apres.etat = The(appel).ret[1]

\* The bytes generator k of the list gives on generate_bytes(n), from its
\* state before the last call.
OctetsDe(k) == LCG_generate_bytes(The(appel).avant[k], The(appel).n)

\* C16: XorGenerator on an empty list raises ValueError; on a non-empty list
\* generate_bytes(n) calls generate_bytes(n) once on every generator, in list
\* order, and returns n bytes, the i-th the xor of the generators' i-th bytes.
C16_XorCombiner ==
  /\ Appele({"XorGenerator"}) =>
       IF The(appel).avant = <<>>
       THEN The(appel).exc = "ValueError" /\ xorgen = None
       ELSE The(appel).exc = "" /\ xorgen # None
  /\ Appele({"xor_generate_bytes"}) =>
       /\ The(appel).journal = [k \in DOMAIN sources |-> k]
       /\ \A k \in DOMAIN sources : sources[k] = OctetsDe(k).self
       /\ Len(The(appel).ret) = The(appel).n
       /\ \A i \in 1..The(appel).n : \A b \in 0..31 :
            b \in The(appel).ret[i] <=>
              /\ b < 8
              /\ Cardinality({k \in DOMAIN sources : b \in OctetsDe(k).ret[i]}) % 2 = 1

\* Three generators combined: two of them have some bit of a byte set.
C16_Witness ==
  /\ Appele({"xor_generate_bytes"}) /\ Len(sources) = 3 /\ The(appel).n = 2
  /\ \E i \in 1..2 : \E b \in 0..7 :
       /\ Cardinality({k \in DOMAIN sources : b \in OctetsDe(k).ret[i]}) = 2
       /\ b \notin The(appel).ret[i]

\* ------------------------------------------------------------------------
\* The window loops of inverser_xor_droite and inverser_xor_gauche_mask,
\* one iteration at a time
\* ------------------------------------------------------------------------

\* The 32 words of one bit, 0, 0xFFFFFFFF, 0xDEADBEEF and 0x12345678.
Words ==
  {{i} : i \in 0..31} \cup {{}, 0..31, Hex(<<13, 14, 10, 13, 11, 14, 14, 15>>),
                            Hex(<<1, 2, 3, 4, 5, 6, 7, 8>>)}

\* The shifts of the calls: negative, zero, 1..31, 32 and beyond.
AllShifts == -2..34

\* The masks of the calls: the two of untemper, all bits, none and 0xAAAAAAAA.
Masks ==
  {TEMPERING_B, TEMPERING_C, FFFFFFFF, {}, Hex(<<10, 10, 10, 10, 10, 10, 10, 10>>)}

\* Iterations of a loop that are followed.
MaxTours == 32

WNInit ==
  /\ word \in Words /\ flips = 0 /\ trace = <<>>
  /\ wnIdle /\ mtIdle /\ lcIdle /\ rcIdle /\ gnIdle

\* The call inverser_xor_droite(y, shift), up to the while: y is the word, or
\* word ^ (word >> shift).
WNAppelDroite ==
  /\ etape = ""
  /\ \E s \in AllShifts, image \in BOOLEAN :
       /\ image => s >= 0
       /\ shift' = s
       /\ trace' = IF image
                   THEN <<[fn |-> "xor_droite", shift |-> s, ret |-> Xor(word, Shr(word, s))]>>
                   ELSE <<>>
       /\ y' = IF image THEN Xor(word, Shr(word, s)) ELSE word
  /\ fonction' = "inverser_xor_droite" /\ mask' = {}
  /\ resultat' = y' /\ decalage' = shift' /\ fenetres' = <<>> /\ etape' = "while"
  /\ UNCHANGED <<word, flips, mtVars, lcVars, rcVars, gnVars>>

\* The call inverser_xor_gauche_mask(y, shift, mask), up to the while: y is
\* the word, or word ^ ((word << shift) & mask).
WNAppelGauche ==
  /\ etape = ""
  /\ \E s \in AllShifts, k \in Masks, image \in BOOLEAN :
       /\ image => s >= 0
       /\ shift' = s /\ mask' = k
       /\ trace' = IF image
                   THEN <<[fn |-> "xor_gauche_mask", shift |-> s,
                           ret |-> Xor(word, And(Shl(word, s), k))]>>
                   ELSE <<>>
       /\ y' = IF image THEN Xor(word, And(Shl(word, s), k)) ELSE word
  /\ fonction' = "inverser_xor_gauche_mask"
  /\ resultat' = y' /\ decalage' = shift' /\ fenetres' = <<>> /\ etape' = "while"
  /\ UNCHANGED <<word, flips, mtVars, lcVars, rcVars, gnVars>>

\* One iteration of the while loop, or the ValueError it raises.
WNTour ==
  /\ etape = "while" /\ continuer(decalage)
  /\ Len(fenetres) < MaxTours
  /\ IF fonction = "inverser_xor_droite"
     THEN IF droite_leve(decalage, shift)
          THEN etape' = "ValueError" /\ UNCHANGED <<resultat, decalage, fenetres>>
          ELSE /\ resultat' = droite_pas(resultat, decalage, shift)
               /\ decalage' = decalage + shift
               /\ fenetres' = Append(fenetres, decalage)
               /\ UNCHANGED etape
     ELSE IF gauche_leve(decalage, shift)
          THEN etape' = "ValueError" /\ UNCHANGED <<resultat, decalage, fenetres>>
          ELSE /\ resultat' = gauche_pas(resultat, decalage, shift, mask)
               /\ decalage' = decalage + shift
               /\ fenetres' = Append(fenetres, decalage)
               /\ UNCHANGED etape
  /\ UNCHANGED <<fonction, y, shift, mask, tpVars, mtVars, lcVars, rcVars, gnVars>>

\* return resultat, once the test of the while fails.
WNRetour ==
  /\ etape = "while" /\ ~continuer(decalage)
  /\ etape' = "return"
  /\ UNCHANGED <<fonction, y, shift, mask, resultat, decalage, fenetres>>
  /\ UNCHANGED <<tpVars, mtVars, lcVars, rcVars, gnVars>>

WNNext == WNAppelDroite \/ WNAppelGauche \/ WNTour \/ WNRetour

SpecFenetre == WNInit /\ [][WNNext]_vars

\* The call made was of fn, with a shift in 1..31, and has returned.
Retourne(fn) == etape = "return" /\ fonction = fn /\ shift \in 1..31

\* C21: inverser_xor_gauche_mask(w ^ ((w << s) & k), s, k) = w for every
\* 32-bit word w, shift s in 1..31 and 32-bit mask k, and the result has no
\* bit above bit 31.
C21_LeftShiftInverse ==
  (Retourne("inverser_xor_gauche_mask") /\ trace # <<>>) =>
    resultat = word /\ resultat \subseteq 0..31

\* The shift 1, which takes 31 windows, with a mask of alternate bits, on a
\* word the masked xor changed.
C21_Witness ==
  /\ Retourne("inverser_xor_gauche_mask") /\ trace # <<>>
  /\ shift = 1 /\ mask = Hex(<<10, 10, 10, 10, 10, 10, 10, 10>>)
  /\ y # word /\ resultat = word

\* C22: the top s bits of inverser_xor_droite(y, s) are the top s bits of y,
\* and the bottom s bits of inverser_xor_gauche_mask(y, s, mask) are the
\* bottom s bits of y.
C22_AnchorWindow ==
  /\ Retourne("inverser_xor_droite") =>
       resultat \cap ((32 - shift)..31) = y \cap ((32 - shift)..31)
  /\ Retourne("inverser_xor_gauche_mask") =>
       resultat \cap (0..(shift - 1)) = y \cap (0..(shift - 1))

\* A call of inverser_xor_droite that changed y below an anchor that has
\* bits set.
C22_Witness ==
  /\ Retourne("inverser_xor_droite")
  /\ resultat # y /\ y \cap ((32 - shift)..31) # {}
  /\ resultat \cap ((32 - shift)..31) = y \cap ((32 - shift)..31)

\* C26: a call with a shift that is zero or negative fails at once with an
\* error: it makes no iteration and returns no value.
C26_MalformedShift ==
  (etape # "" /\ shift <= 0) => (fenetres = <<>> /\ etape # "return")

\* ceil(32 / s) - 1 for s >= 1.
NbFenetres(s) == (32 + s - 1) \div s - 1

\* C30: for a shift s >= 1 both loops end after exactly ceil(32/s) - 1
\* iterations, none when s >= 32 (y is returned as it is), with decalage
\* taking the values s, 2s, ... below 32.
C30_WindowLoops ==
  (etape # "" /\ shift >= 1) =>
    /\ etape # "ValueError"
    /\ fenetres = [k \in 1..Len(fenetres) |-> k * shift]
    /\ decalage = (Len(fenetres) + 1) * shift
    /\ Len(fenetres) <= NbFenetres(shift)
    /\ etape = "return" =>
         /\ Len(fenetres) = NbFenetres(shift)
         /\ shift >= 32 => (fenetres = <<>> /\ resultat = y)

\* The shift 16, whose second decalage is exactly 32: one iteration.
C30_Witness ==
  /\ etape = "return" /\ shift = 16 /\ fenetres = <<16>> /\ resultat # y

\* ------------------------------------------------------------------------
\* The output streams: next and generate on one generator, and a clone made
\* from the last 624 outputs of a MersenneTwister
\* ------------------------------------------------------------------------

FluxSeeds == {98765, -1}

\* The n of generate(n) on the MersenneTwister: none, N - M and N.
FluxSizes == {0, 227, 624}

\* The n of the generate(n) of the target and of the clone that are compared.
CompareSizes == {10, 650}

\* The n of generate(n) on the LCG.
LcgSizes == {0, 2, 3}

\* Outputs of the MersenneTwister before the cloning.
MaxFlux == 1250

\* Single next() calls on the MersenneTwister.
MaxNexts == 1

\* Outputs of the LCG.
MaxSorties == 4

\* One generator is run: a MersenneTwister (pc = "") or an LCG (pc = "lcg").
SFInit ==
  /\ \/ /\ \E s \in FluxSeeds : gen = MersenneTwister(PyInt(s))
        /\ observations = <<>> /\ attack = NoCall /\ clone = None
        /\ pending = <<>> /\ lead = "" /\ compared = <<>> /\ nCompared = 0
        /\ calls = 0 /\ erreur = ""
        /\ lcIdle
     \/ /\ mtIdle
        /\ lcg \in Gens /\ sorties = <<>> /\ pc = "lcg"
        /\ m_trouve = None /\ a_trouve = None /\ c_trouve = None /\ etat = None
        /\ vrais = <<>> /\ predictions = <<>>
  /\ tpIdle /\ rcIdle /\ gnIdle /\ wnIdle

\* observations.append(gen_cible.next())
SFNext ==
  /\ pc = "" /\ clone = None
  /\ calls < MaxNexts /\ Len(observations) < MaxFlux
  /\ LET r == MT_next(gen)
     IN gen' = r.self /\ observations' = Append(observations, r.ret)
  /\ calls' = calls + 1
  /\ UNCHANGED <<attack, clone, pending, lead, compared, nCompared, erreur>>
  /\ UNCHANGED <<tpVars, lcVars, rcVars, gnVars, wnVars>>

\* observations += gen_cible.generate(n)
SFGenerate ==
  /\ pc = "" /\ clone = None
  /\ \E n \in FluxSizes :
       /\ Len(observations) + n <= MaxFlux
       /\ LET r == MT_generate(gen, n)
          IN gen' = r.self /\ observations' = observations \o r.ret
  /\ UNCHANGED <<attack, clone, pending, lead, compared, nCompared, calls, erreur>>
  /\ UNCHANGED <<tpVars, lcVars, rcVars, gnVars, wnVars>>

\* gen_clone = cloner_generateur(the last 624 observations)
SFClone ==
  /\ pc = "" /\ clone = None /\ Len(observations) >= 624
  /\ LET fenetre == SubSeq(observations, Len(observations) - 623, Len(observations))
         c       == cloner_generateur(fenetre)
     IN /\ clone' = c
        /\ attack' = [len |-> Len(fenetre),
                      ret |-> IF c = None THEN "None" ELSE "MersenneTwister"]
  /\ UNCHANGED <<gen, observations, pending, lead, compared, nCompared, calls, erreur>>
  /\ UNCHANGED <<tpVars, lcVars, rcVars, gnVars, wnVars>>

\* vrais = gen_cible.generate(n); predictions = gen_clone.generate(n)
SFCompare ==
  /\ pc = "" /\ clone # None /\ compared = <<>>
  /\ \E n \in CompareSizes :
       /\ LET vrais_       == MT_generate(gen, n)
              predictions_ == MT_generate(The(clone), n)
          IN /\ gen' = vrais_.self
             /\ clone' = Some(predictions_.self)
             /\ compared' = <<vrais_.ret, predictions_.ret>>
       /\ nCompared' = nCompared + n
  /\ UNCHANGED <<observations, attack, pending, lead, calls, erreur>>
  /\ UNCHANGED <<tpVars, lcVars, rcVars, gnVars, wnVars>>

\* sorties.append(gen.next())
SFLcgNext ==
  /\ pc = "lcg" /\ Len(sorties) < MaxSorties
  /\ LET r == LCG_next(lcg)
     IN lcg' = r.self /\ sorties' = Append(sorties, r.ret)
  /\ UNCHANGED <<pc, m_trouve, a_trouve, c_trouve, etat, vrais, predictions>>
  /\ UNCHANGED <<tpVars, mtVars, rcVars, gnVars, wnVars>>

\* sorties += gen.generate(n)
SFLcgGenerate ==
  /\ pc = "lcg"
  /\ \E n \in LcgSizes :
       /\ Len(sorties) + n <= MaxSorties
       /\ LET r == LCG_generate(lcg, n)
          IN lcg' = r.self /\ sorties' = sorties \o r.ret
  /\ UNCHANGED <<pc, m_trouve, a_trouve, c_trouve, etat, vrais, predictions>>
  /\ UNCHANGED <<tpVars, mtVars, rcVars, gnVars, wnVars>>

SFNext_ ==
  SFNext \/ SFGenerate \/ SFClone \/ SFCompare \/ SFLcgNext \/ SFLcgGenerate

SpecFlux == SFInit /\ [][SFNext_]_vars

\* C27: a clone built from any 624 consecutive outputs of the target, those
\* of ranks k+1..k+624 for an offset k that need not be a multiple of 624,
\* gives as its j-th output the target's output of rank k+624+j.
C27_AnyWindow ==
  (pc = "" /\ compared # <<>>) => compared[1] = compared[2]

\* An offset of 228 outputs, and 650 outputs compared: two twists of the clone.
C27_Witness ==
  /\ pc = "" /\ Len(observations) = 228 + 624 /\ nCompared = 650
  /\ compared # <<>> /\ compared[1] = compared[2]

\* The cursor after c calls of next() on a generator built with the cursor N.
Curseur(c) == IF c = 0 THEN N ELSE ((c - 1) % N) + 1

\* The twists made by the calls number 1..c: one on each call 1, 625, 1249...
Twists(c) == IF c = 0 THEN 0 ELSE ((c - 1) \div N) + 1

\* The state array after k twists.
RECURSIVE TwistN(_, _)
TwistN(self, k) == IF k <= 0 THEN self.etat ELSE TwistN(twist(self), k - 1)

\* The calls of next() made on the target, and on the clone, so far.
AppelsCible == Len(observations) + nCompared

AppelsClone == nCompared

\* C24: a MersenneTwister built with the cursor 624, the target or a clone,
\* twists on its first next() before the output is read; after c >= 1 calls
\* the cursor is ((c - 1) mod 624) + 1, in 1..624; the state array changes by
\* one twist on the calls number 1, 625, 1249... and on no other call, and the
\* output of such a call is the tempered word 0 of the twisted array.
C24_TwistSchedule ==
  [][pc = "" =>
       /\ gen.index = Curseur(AppelsCible)
       /\ gen'.index = Curseur(AppelsCible')
       /\ gen'.index \in 1..N
       /\ gen'.etat = TwistN(gen, Twists(AppelsCible') - Twists(AppelsCible))
       /\ calls' # calls =>
            /\ Twists(AppelsCible') - Twists(AppelsCible)
                 = (IF AppelsCible' % N = 1 THEN 1 ELSE 0)
            /\ gen.index = N =>
                 observations'[Len(observations')] = tempering(twist(gen).etat[0])
            /\ gen.index < N =>
                 observations'[Len(observations')] = tempering(gen.etat[gen.index])
       /\ (clone = None /\ clone' # None) => The(clone').index = N
       /\ (clone # None /\ clone' # None) =>
            /\ The(clone).index = Curseur(AppelsClone)
            /\ The(clone').index = Curseur(AppelsClone')
            /\ The(clone').index \in 1..N
            /\ The(clone').etat
                 = TwistN(The(clone), Twists(AppelsClone') - Twists(AppelsClone))
            /\ AppelsClone = 0 =>
                 compared'[2][1] = tempering(twist(The(clone)).etat[0])
    ]_vars

\* The call number 625 of the target was a twist, by next() or inside a
\* generate, and the clone made then has served 10 outputs.
C24_Witness ==
  /\ pc = "" /\ Len(observations) = 625 /\ calls = 1
  /\ clone # None /\ nCompared = 10
  /\ gen.index = 11 /\ The(clone).index = 10

\* One call of next(), its value appended.
appel_next(s, i) ==
  LET r == MT_next(s.self)
  IN [self |-> r.self, ret |-> s.ret \o <<r.ret>>]

\* n successive calls of next(): the generator after them and their values.
appels_next(self, n) == ForRange(appel_next, [self |-> self, ret |-> <<>>], 0, n)

RECURSIVE lcg_appels_next(_, _)
lcg_appels_next(self, n) ==
  IF n = 0 THEN [self |-> self, ret |-> <<>>]
  ELSE LET s == lcg_appels_next(self, n - 1)
           r == LCG_next(s.self)
       IN [self |-> r.self, ret |-> Append(s.ret, r.ret)]

\* C25: on every generator reached, generate(n) returns the values of n
\* successive next() calls and leaves the generator as they do; generate(j)
\* then generate(n - j) return together the list of generate(n) and leave the
\* same generator; generate(0) returns the empty list and the generator
\* unchanged.  For the MersenneTwister and for the LCG.
C25_GenerateIsRepeatedNext ==
  /\ (pc = "" /\ clone = None) =>
       /\ MT_generate(gen, 0) = [self |-> gen, ret |-> <<>>]
       /\ \A n \in FluxSizes :
            Len(observations) + n <= MaxFlux =>
              LET g == MT_generate(gen, n)
                  j == n \div 2
                  a == MT_generate(gen, j)
                  b == MT_generate(a.self, n - j)
              IN /\ g = appels_next(gen, n)
                 /\ Len(g.ret) = n
                 /\ a.ret \o b.ret = g.ret
                 /\ b.self = g.self
  /\ pc = "lcg" =>
       \A n \in LcgSizes :
         LET g == LCG_generate(lcg, n)
         IN /\ g = lcg_appels_next(lcg, n)
            /\ Len(g.ret) = n
            /\ n = 0 => g = [self |-> lcg, ret |-> <<>>]
            /\ \A j \in 0..n :
                 LET a == LCG_generate(lcg, j)
                     b == LCG_generate(a.self, n - j)
                 IN a.ret \o b.ret = g.ret /\ b.self = g.self

\* generate(227) then generate(624), the second across a twist: the 851
\* values are those of 851 calls of next() on a new generator.
C25_Witness ==
  /\ pc = "" /\ clone = None /\ calls = 0 /\ Len(observations) = 851
  /\ gen.graine = PyInt(98765)
  /\ [self |-> gen, ret |-> observations]
       = appels_next(MersenneTwister(PyInt(98765)), 851)

=============================================================================
